---- MODULE Spec2Model ----
(***************************************************************************)
(* climate.c: per-region running statistics over tab-delimited climate     *)
(* observation files.  main() opens each file named on the command line,   *)
(* analyze_file() reads it with fgets into a 100-byte buffer, tokenises    *)
(* each buffer on tab characters and folds the tokens into the states[]    *)
(* array of NUM_STATES pointers; print_report() walks the array.           *)
(*                                                                         *)
(* Text is modelled as sequences of one-character strings.  Numbers read   *)
(* by atof are kept in tenths (one fractional digit), Fahrenheit values in *)
(* thousandths, so that  K * 1.8 - 459.67  is exact on the inputs used.    *)
(***************************************************************************)
EXTENDS Integers, Sequences, FiniteSets, TLC

\* ------------------------------------------------------------ bounds
\* Lines a run may read when it starts from an empty input history.
MaxLines == 2
\* Lines a run may read after the many-region first file (see PreRegions).
MaxExtra == 2
\* Files named on the command line (argc - 1).
MaxFiles == 2

\* ------------------------------------------------------------ program constants
NUM_STATES == 50
line_sz == 100
\* char* data[9]
DATA_SZ == 9
\* char code[3]
CODE_SZ == 3

\* A null pointer is the empty tuple, a pointer to a struct the 1-tuple of it.
NULL == <<>>

Ptr(rec) == <<rec>>

Deref(p) == p[1]
TAB == "\t"
NL == "\n"

SetMin(S) == CHOOSE k \in S : \A j \in S : k <= j

\* ------------------------------------------------------------ C library
DigitChars == <<"0", "1", "2", "3", "4", "5", "6", "7", "8", "9">>

IsDigit(c) == \E d \in 1..10 : DigitChars[d] = c

DigitVal(c) == (CHOOSE d \in 1..10 : DigitChars[d] = c) - 1

\* isspace(): the characters strtol/strtod skip before the number.
IsSpace(c) == c \in {" ", "\t", "\n", "\r", "\f"}

RECURSIVE SkipSpace(_, _)
SkipSpace(s, i) ==
    IF i <= Len(s) /\ IsSpace(s[i]) THEN SkipSpace(s, i + 1) ELSE i

\* The value of the run of digits of s that starts at i, continuing acc, and
\* the index after it: <<value, next index>>.
RECURSIVE DigitRun(_, _, _)
DigitRun(s, i, acc) ==
    IF i <= Len(s) /\ IsDigit(s[i])
    THEN DigitRun(s, i + 1, acc * 10 + DigitVal(s[i]))
    ELSE <<acc, i>>

\* atol(): leading white space, an optional sign, then decimal digits; what
\* follows the digits is ignored and a string with no digits gives 0.
atol(s) ==
    LET i == SkipSpace(s, 1)
        neg == i <= Len(s) /\ s[i] = "-"
        j == IF i <= Len(s) /\ s[i] \in {"-", "+"} THEN i + 1 ELSE i
        v == DigitRun(s, j, 0)[1]
    IN  IF neg THEN 0 - v ELSE v

\* atof(), in tenths: leading white space, an optional sign, digits, and an
\* optional point followed by digits.  Only the first fractional digit is
\* kept; every number in the inputs below has at most one.
atof(s) ==
    LET i == SkipSpace(s, 1)
        neg == i <= Len(s) /\ s[i] = "-"
        j == IF i <= Len(s) /\ s[i] \in {"-", "+"} THEN i + 1 ELSE i
        ip == DigitRun(s, j, 0)
        k == ip[2]
        frac == IF k < Len(s) /\ s[k] = "." /\ IsDigit(s[k + 1])
                THEN DigitVal(s[k + 1]) ELSE 0
        v == ip[1] * 10 + frac
    IN  IF neg THEN 0 - v ELSE v

\* fgets(line, line_sz, file): the next bytes of the file up to and including
\* the first newline, but at most line_sz - 1 of them.  buf is what is left
\* of the current line (it ends with its newline); the result is the number
\* of bytes taken.
fgetsLen(buf) ==
    LET cap == IF Len(buf) < line_sz - 1 THEN Len(buf) ELSE line_sz - 1
        nls == {k \in 1..cap : buf[k] = NL}
    IN  IF nls = {} THEN cap ELSE SetMin(nls)

\* strtok(line, "\t") then strtok(NULL, "\t") until NULL: the maximal runs of
\* characters other than tab, in order; empty fields produce no token.
RECURSIVE SkipTabs(_, _)
SkipTabs(s, i) ==
    IF i <= Len(s) /\ s[i] = TAB THEN SkipTabs(s, i + 1) ELSE i

RECURSIVE strtok(_, _)
strtok(s, i) ==
    LET b == SkipTabs(s, i)
        tabs == {k \in b..Len(s) : s[k] = TAB}
        e == IF tabs = {} THEN Len(s) + 1 ELSE SetMin(tabs)
    IN  IF b > Len(s) THEN <<>>
        ELSE <<SubSeq(s, b, e - 1)>> \o strtok(s, e + 1)

\* ------------------------------------------------------------ input files
\* Decimal text of a natural number, and of a number given in tenths.
RECURSIVE Dec(_)
Dec(n) ==
    IF n < 10 THEN <<DigitChars[n + 1]>>
    ELSE Dec(n \div 10) \o <<DigitChars[(n % 10) + 1]>>

Tenths(n) == Dec(n \div 10) \o <<".">> \o Dec(n % 10)

RECURSIVE Join(_)
Join(fields) ==
    IF Len(fields) = 1 THEN fields[1] \o <<NL>>
    ELSE fields[1] \o <<TAB>> \o Join(Tail(fields))

Pad(n) == [k \in 1..n |-> "g"]

\* One line of a .tdv file: state code, timestamp (ms), geohash, humidity,
\* snow, cloud cover, lightning, pressure, surface temperature (Kelvin).
TdvLine(code, ms, geo, hum, snow, cloud, light, kelvin) ==
    Join(<<code, Dec(ms), geo, Tenths(hum), Tenths(snow), Tenths(cloud),
           Tenths(light), <<"1", ".", "0">>, Tenths(kelvin)>>)

CA == <<"C", "A">>
TX == <<"T", "X">>
WA == <<"W", "A">>
Geo == <<"9", "p", "r">>

\* A line of line_sz + 2 bytes: the geohash is padded so that the first
\* line_sz - 1 bytes end inside the last field, after "290".
LongGeo == Pad(line_sz - 35)

\* The lines a file may hold, by number.  1-4 are well formed and shorter
\* than the buffer; 5 has 8 fields (no temperature); 6 is well formed and
\* longer than the buffer.
FreeText ==
    << TdvLine(CA, 1000, Geo, 500, 0, 100, 10, 2855),
       TdvLine(CA, 2999, Geo, 600, 10, 200, 0, 2800),
       TdvLine(CA, 4500, Geo, 400, 10, 300, 10, 2800),
       TdvLine(TX, 1000, Geo, 700, 0, 0, 0, 2900),
       Join(<<CA, Dec(5000), Geo, Tenths(500), Tenths(0), Tenths(100),
              Tenths(0), <<"1", ".", "0">>>>),
       TdvLine(WA, 5000, LongGeo, 500, 0, 100, 0, 2900) >>

FreeLines == 1..Len(FreeText)

\* The first file of a run over many regions: one line for each of
\* NUM_STATES - 1 regions, coded "01", "02", ...
PreRegions == NUM_STATES - 1

PreCode(k) == IF k < 10 THEN <<"0">> \o Dec(k) ELSE Dec(k)

PreId(k) == 100 + k

LineText(id) ==
    IF id \in FreeLines THEN FreeText[id]
    ELSE TdvLine(PreCode(id - 100), 1000 * (id - 100), Geo, 500, 0, 100, 0, 2800)

LineIds == FreeLines \cup {PreId(k) : k \in 1..PreRegions}

LineLen == [id \in LineIds |-> Len(LineText(id))]

\* The offsets in a line at which a call of fgets starts.
RECURSIVE Starts(_, _)
Starts(text, from) ==
    IF from >= Len(text) THEN {}
    ELSE {from} \cup Starts(text, from + fgetsLen(SubSeq(text, from + 1, Len(text))))

\* For each line and each such offset: the offset after the call.
NextOff ==
    [id \in LineIds |->
        [from \in Starts(LineText(id), 0) |->
            from + fgetsLen(SubSeq(LineText(id), from + 1, LineLen[id]))]]

\* For each line and each such offset: the tokens strtok finds in what the
\* call returned.
TokenTable ==
    [id \in LineIds |->
        [from \in Starts(LineText(id), 0) |->
            strtok(SubSeq(LineText(id), from + 1, NextOff[id][from]), 1)]]

\* What an uninitialised data[k] may point at when the read does not fault:
\* the tokens of some other record.
StaleData ==
    { strtok(TdvLine(TX, 7000, Geo, 900, 10, 900, 10, 3000), 1),
      strtok(TdvLine(TX, 8000, Geo, 100, 0, 0, 0, 2700), 1) }

\* ------------------------------------------------------------ the registry
\* struct climate_info *states[NUM_STATES] = { NULL }
Slots == 0..(NUM_STATES - 1)

EmptyRegistry == [v \in Slots |-> NULL]

\* atof(data[8]) * 1.8 - 459.67, in thousandths of a degree.
Fahrenheit(k) == k * 180 - 459670

\* The values one loop iteration reads out of data[] (data is 1-based here:
\* data[k + 1] is the program's data[k]).
Parse(data, n) ==
    [ code |-> data[1],
      time |-> atol(data[2]) \div 1000,
      temp |-> Fahrenheit(atof(data[9])),
      hum |-> atof(data[4]),
      snow |-> atol(data[5]),
      cloud |-> atof(data[6]),
      light |-> atol(data[7]),
      ln |-> n ]

\* The struct as initialised for a code seen for the first time.
Seed(o) ==
    [ code |-> o.code,
      num_records |-> 1,
      max_temp |-> o.temp,
      max_temp_time |-> o.time,
      min_temp |-> o.temp,
      min_temp_time |-> o.time,
      num_lightning_strikes |-> o.light,
      num_snow |-> o.snow,
      sum_of_temperature |-> o.temp,
      sum_of_humidity |-> o.hum,
      sum_of_cloud_cover |-> o.cloud ]

MaxPartTieLast(rec, o) ==
    IF rec.max_temp <= o.temp
    THEN [rec EXCEPT !.max_temp = o.temp, !.max_temp_time = o.time]
    ELSE rec

MaxPart(rec, o) ==
    IF rec.max_temp < o.temp
    THEN [rec EXCEPT !.max_temp = o.temp, !.max_temp_time = o.time]
    ELSE rec

MinPartTieLast(rec, o) ==
    IF rec.min_temp >= o.temp
    THEN [rec EXCEPT !.min_temp = o.temp, !.min_temp_time = o.time]
    ELSE rec

MinPart(rec, o) ==
    IF rec.min_temp > o.temp
    THEN [rec EXCEPT !.min_temp = o.temp, !.min_temp_time = o.time]
    ELSE rec

SumsPart(rec, o) ==
    [rec EXCEPT !.num_lightning_strikes = @ + o.light,
                !.num_snow = @ + o.snow,
                !.sum_of_temperature = @ + o.temp,
                !.sum_of_humidity = @ + o.hum,
                !.sum_of_cloud_cover = @ + o.cloud]

CountPartMissing(rec) == rec

CountPart(rec) == [rec EXCEPT !.num_records = @ + 1]

\* The else branch: the struct of a code already present, updated.
Update(rec, o) == SumsPart(MinPart(MaxPart(CountPart(rec), o), o), o)

\* The scan for the slot: the first slot that is NULL or holds the code, or
\* num_states when the scan runs off the end of the array.
Lookup(st, code) ==
    SetMin({val \in Slots : st[val] = NULL \/ Deref(st[val]).code = code}
           \cup {NUM_STATES})

\* strcpy(states[val]->code, data[0]) writes past code[CODE_SZ] when the
\* token and its terminator do not fit.
CodeFits(code) == Len(code) + 1 <= CODE_SZ

\* The array after one observation is stored by a run that goes on; a scan
\* that ran off the end leaves every slot of the array as it was.
Store(st, o) ==
    LET val == Lookup(st, o.code)
    IN  IF val >= NUM_STATES THEN st
        ELSE IF st[val] = NULL THEN [st EXCEPT ![val] = Ptr(Seed(o))]
        ELSE [st EXCEPT ![val] = Ptr(Update(Deref(st[val]), o))]

\* The word after the array, as states[NUM_STATES] reads and writes it:
\* "indet" is a word nothing has read yet, "junk" one that was read as a
\* non-null value that is not the address of a struct, "set" one that was
\* read as NULL and now holds the address of a struct.
Indet == [tag |-> "indet", ptr |-> NULL]

Junk == [tag |-> "junk", ptr |-> NULL]

PastAfter(pw, o) ==
    IF pw.tag = "indet" THEN {[tag |-> "set", ptr |-> Ptr(Seed(o))], Junk}
    ELSE IF pw.tag = "junk" THEN {Junk}
    ELSE {[tag |-> "set", ptr |-> Ptr(Update(Deref(pw.ptr), o))]}

\* print_report: the non-null slots, by increasing index.
Snapshot(st) ==
    LET occ == {v \in Slots : st[v] # NULL}
        at(n) == CHOOSE v \in occ : Cardinality({w \in occ : w < v}) = n - 1
    IN  [n \in 1..Cardinality(occ) |-> Deref(st[at(n)])]

\* ------------------------------------------------------------ the program
VARIABLES
    pc,       \* where main is: "main", "loop", "analyze", "return_0",
              \* "EXIT_FAILURE", "crashed"
    argc,     \* the number of command-line words, the program's name included
    i,        \* main's loop index
    states,   \* the array of pointers
    past,     \* the word that follows the array in main's frame
    val,      \* analyze_file's slot index after the last scan
    report,   \* what print_report has listed
    pre,      \* lines of the many-region first file (0 when there is none)
    lines,    \* the lines read so far, by number, over all files
    carried,  \* the number of observations stored before the file that is
              \* being read, or was read last, was opened
    off,      \* bytes of the last line that fgets has returned so far, while
              \* part of it is unread; 0 otherwise
    obs,      \* the observations the loop body has stored, in order
    failedAt  \* the index of the file that could not be opened, 0 if none

vars == <<pc, argc, i, states, past, val, report, pre, lines, carried, off,
          obs, failedAt>>

Init ==
    /\ pc = "main"
    /\ argc \in 1..(MaxFiles + 1)
    /\ i = 0
    /\ states = EmptyRegistry
    /\ past = Indet
    /\ val = 0
    /\ report = <<>>
    /\ pre \in (IF argc = 2 THEN {0, PreRegions} ELSE {0})
    /\ lines = <<>>
    /\ carried = 0
    /\ off = 0
    /\ obs = <<>>
    /\ failedAt = 0

\* if (argc < 2) { printf("Usage: ..."); return EXIT_FAILURE; }
Usage ==
    /\ pc = "main"
    /\ argc < 2
    /\ pc' = "EXIT_FAILURE"
    /\ UNCHANGED <<argc, i, states, past, val, report, pre, lines, carried,
                   off, obs, failedAt>>

\* The array is declared and the loop entered with i = 1.
Start ==
    /\ pc = "main"
    /\ argc >= 2
    /\ pc' = "loop"
    /\ i' = 1
    /\ UNCHANGED <<argc, states, past, val, report, pre, lines, carried, off,
                   obs, failedAt>>

OpenFileFreshArray ==
    /\ pc = "loop"
    /\ i < argc
    /\ pc' = "analyze"
    /\ states' = EmptyRegistry
    /\ carried' = Len(obs)
    /\ UNCHANGED <<argc, i, past, val, report, pre, lines, off, obs, failedAt>>

\* fopen succeeds: analyze_file(file, states, NUM_STATES) is entered.
OpenFile ==
    /\ pc = "loop"
    /\ i < argc
    /\ pc' = "analyze"
    /\ carried' = Len(obs)
    /\ UNCHANGED <<argc, i, states, past, val, report, pre, lines, off, obs,
                   failedAt>>

OpenFailMovesOn ==
    /\ pc = "loop"
    /\ i < argc
    /\ failedAt' = i
    /\ i' = i + 1
    /\ UNCHANGED <<pc, argc, states, past, val, report, pre, lines, carried,
                   off, obs>>

\* fopen returns NULL: the message is printed and main returns EXIT_FAILURE.
OpenFail ==
    /\ pc = "loop"
    /\ i < argc
    /\ failedAt' = i
    /\ pc' = "EXIT_FAILURE"
    /\ UNCHANGED <<argc, i, states, past, val, report, pre, lines, carried,
                   off, obs>>

\* fgets returns NULL: analyze_file returns, the file is closed, ++i.
EndOfFile ==
    /\ pc = "analyze"
    /\ off = 0
    /\ Len(lines) >= pre
    /\ pc' = "loop"
    /\ i' = i + 1
    /\ UNCHANGED <<argc, states, past, val, report, pre, lines, carried, off,
                   obs, failedAt>>

\* The loop is over: print_report(states, NUM_STATES); return 0.
PrintReport ==
    /\ pc = "loop"
    /\ i >= argc
    /\ report' = Snapshot(states)
    /\ pc' = "return_0"
    /\ UNCHANGED <<argc, i, states, past, val, pre, lines, carried, off, obs,
                   failedAt>>

\* ------------------------------------------------------------ analyze_file
\* The lines the next fgets may start on: the unread part of a line longer
\* than the buffer comes first; the first file of a many-region run holds its
\* regions in order; any line may follow while the run's budget lasts.
NextIds ==
    IF off > 0 THEN {lines[Len(lines)]}
    ELSE IF Len(lines) < pre THEN {PreId(Len(lines) + 1)}
    ELSE {id \in FreeLines :
            Len(lines) - pre < (IF pre = 0 THEN MaxLines ELSE MaxExtra)}

\* What the tokenising loop finds in line[] after fgets has read on in that
\* line, and the bytes of the line that are read then.
Tokens(id) == TokenTable[id][off]

OffAfter(id) == IF NextOff[id][off] >= LineLen[id] THEN 0 ELSE NextOff[id][off]

LinesAfter(id) == IF off > 0 THEN lines ELSE Append(lines, id)

\* data[] after the tokenising loop: the first index entries are the tokens,
\* the others are not initialised and hold whatever was there.
DataSets(tokens) ==
    IF Len(tokens) >= DATA_SZ THEN {SubSeq(tokens, 1, DATA_SZ)}
    ELSE {[k \in 1..DATA_SZ |-> IF k <= Len(tokens) THEN tokens[k] ELSE g[k]] :
            g \in StaleData}

\* One iteration of the while loop that runs to its end.
ReadRecord ==
    /\ pc = "analyze"
    /\ \E id \in NextIds :
         \E data \in DataSets(Tokens(id)) :
           LET o == Parse(data, Len(LinesAfter(id)))
               v == Lookup(states, o.code)
           IN  /\ val' = v
               /\ states' = Store(states, o)
               /\ past' \in (IF v >= NUM_STATES THEN PastAfter(past, o)
                             ELSE {past})
               /\ obs' = Append(obs, o)
               /\ lines' = LinesAfter(id)
               /\ off' = OffAfter(id)
    /\ UNCHANGED <<pc, argc, i, report, pre, carried, failedAt>>

\* One iteration that reads an entry of data[] the tokenising loop did not
\* set, and faults on it.
FaultData ==
    /\ pc = "analyze"
    /\ \E id \in NextIds :
         /\ Len(Tokens(id)) < DATA_SZ
         /\ lines' = LinesAfter(id)
         /\ off' = OffAfter(id)
    /\ pc' = "crashed"
    /\ UNCHANGED <<argc, i, states, past, val, report, pre, carried, obs,
                   failedAt>>

\* One iteration that faults in the store: strcpy runs past code[], or the
\* scan ran off the array and states[num_states] is not the address of a
\* struct.
FaultStore ==
    /\ pc = "analyze"
    /\ \E id \in NextIds :
         \E data \in DataSets(Tokens(id)) :
           LET o == Parse(data, Len(LinesAfter(id)))
               v == Lookup(states, o.code)
           IN  /\ \/ v >= NUM_STATES /\ past.tag # "set"
                  \/ v < NUM_STATES /\ states[v] = NULL /\ ~CodeFits(o.code)
               /\ val' = v
               /\ lines' = LinesAfter(id)
               /\ off' = OffAfter(id)
    /\ pc' = "crashed"
    /\ UNCHANGED <<argc, i, states, past, report, pre, carried, obs,
                   failedAt>>

Next ==
    \/ Usage
    \/ Start
    \/ OpenFile
    \/ OpenFail
    \/ ReadRecord
    \/ FaultData
    \/ FaultStore
    \/ EndOfFile
    \/ PrintReport

Spec == Init /\ [][Next]_vars

\* ------------------------------------------------------------ what the input says
Occupied == {v \in Slots : states[v] # NULL}

\* The observations of one code, in input order.
ObsOf(os, code) == SelectSeq(os, LAMBDA o : o.code = code)

RECURSIVE SeqSum(_)
SeqSum(ns) == IF ns = <<>> THEN 0 ELSE Head(ns) + SeqSum(Tail(ns))

MaxTemp(os) ==
    CHOOSE t \in {os[k].temp : k \in 1..Len(os)} :
        \A k \in 1..Len(os) : os[k].temp <= t

MinTemp(os) ==
    CHOOSE t \in {os[k].temp : k \in 1..Len(os)} :
        \A k \in 1..Len(os) : t <= os[k].temp

\* The first observation, in input order, with temperature t.
FirstAt(os, t) == os[SetMin({k \in 1..Len(os) : os[k].temp = t})]

\* The statistics of one code, read off the observations themselves.
Summary(os, code) ==
    LET mine == ObsOf(os, code)
    IN  [ code |-> code,
          num_records |-> Len(mine),
          max_temp |-> MaxTemp(mine),
          max_temp_time |-> FirstAt(mine, MaxTemp(mine)).time,
          min_temp |-> MinTemp(mine),
          min_temp_time |-> FirstAt(mine, MinTemp(mine)).time,
          num_lightning_strikes |-> SeqSum([k \in 1..Len(mine) |-> mine[k].light]),
          num_snow |-> SeqSum([k \in 1..Len(mine) |-> mine[k].snow]),
          sum_of_temperature |-> SeqSum([k \in 1..Len(mine) |-> mine[k].temp]),
          sum_of_humidity |-> SeqSum([k \in 1..Len(mine) |-> mine[k].hum]),
          sum_of_cloud_cover |-> SeqSum([k \in 1..Len(mine) |-> mine[k].cloud]) ]

\* The places in a sequence of observations where a code occurs for the
\* first time, and how many codes were first seen before that place.
FirstIdx(os) ==
    {k \in 1..Len(os) : \A j \in 1..(k - 1) : os[j].code # os[k].code}

\* For each of these places, the number of such places before it.
Rank(os) ==
    LET fi == FirstIdx(os)
    IN  [k \in fi |-> Cardinality({m \in fi : m < k})]

\* The distinct codes of a sequence of observations, in first-seen order.
FirstSeen(os) ==
    LET rank == Rank(os)
    IN  [n \in 1..Cardinality(DOMAIN rank) |->
            os[CHOOSE k \in DOMAIN rank : rank[k] = n - 1].code]

\* The array a single stream of these observations leaves behind: slot v
\* holds the statistics of the code that was first seen after v others.
RegistryOf(os) ==
    LET rank == Rank(os)
    IN  [v \in Slots |->
            IF \E k \in DOMAIN rank : rank[k] = v
            THEN Ptr(Summary(os, os[CHOOSE k \in DOMAIN rank : rank[k] = v].code))
            ELSE NULL]

\* A line that splits into DATA_SZ fields and fits the buffer, and what the
\* loop body reads from it.
WellFormed(id) == Len(TokenTable[id][0]) = DATA_SZ

FitsBuffer(id) == NextOff[id][0] = LineLen[id]

LineObs(id, n) == Parse(SubSeq(TokenTable[id][0], 1, DATA_SZ), n)

\* ------------------------------------------------------------ claims
\* The observations of the well-formed lines alone, as if every other line
\* had been removed from the input.
KeptObs ==
    LET kept == SelectSeq(lines, WellFormed)
    IN  [k \in 1..Len(kept) |-> LineObs(kept[k], k)]

\* C1: a line with fewer than 9 tab-separated fields is skipped: when the
\* run has read all its files (every line fitting the buffer), the registry
\* is the one the same input gives with the malformed lines removed.
C1_MalformedSkipped ==
    (pc = "return_0" /\ \A k \in 1..Len(lines) : FitsBuffer(lines[k]))
        => states = RegistryOf(KeptObs)

\* C2: the regions print_report lists are, in order, the distinct region
\* codes of the observations in the order of their first occurrence.
C2_FirstSeenOrder ==
    pc = "return_0"
        => [n \in 1..Len(report) |-> report[n].code] = FirstSeen(obs)

\* C3: for every region of the registry, max_temp is the maximum of the
\* Fahrenheit temperatures of the observations folded for that region, and
\* max_temp_time is the timestamp of the first of them that attains it.
C3_MaxIsFirstMaximum ==
    \A v \in Occupied :
        LET r == Deref(states[v])
            mine == ObsOf(obs, r.code)
        IN  /\ mine # <<>>
            /\ r.max_temp = MaxTemp(mine)
            /\ r.max_temp_time = FirstAt(mine, r.max_temp).time

\* Two observations of one region tie for the maximum at different times,
\* and the registry holds the time of the first.
C3_Witness_TieOnMax ==
    \E v \in Occupied :
        LET r == Deref(states[v])
            mine == ObsOf(obs, r.code)
        IN  /\ Len(mine) >= 2
            /\ mine[1].temp = r.max_temp
            /\ mine[2].temp = r.max_temp
            /\ mine[1].time # mine[2].time
            /\ r.max_temp_time = mine[1].time

\* C4: for every region of the registry, min_temp is the minimum of the
\* Fahrenheit temperatures of the observations folded for that region, and
\* min_temp_time is the timestamp of the first of them that attains it.
C4_MinIsFirstMinimum ==
    \A v \in Occupied :
        LET r == Deref(states[v])
            mine == ObsOf(obs, r.code)
        IN  /\ mine # <<>>
            /\ r.min_temp = MinTemp(mine)
            /\ r.min_temp_time = FirstAt(mine, r.min_temp).time

\* Two observations of one region tie for the minimum at different times,
\* and the registry holds the time of the first.
C4_Witness_TieOnMin ==
    \E v \in Occupied :
        LET r == Deref(states[v])
            mine == ObsOf(obs, r.code)
        IN  /\ Len(mine) >= 2
            /\ mine[1].temp = r.min_temp
            /\ mine[2].temp = r.min_temp
            /\ mine[1].time # mine[2].time
            /\ r.min_temp_time = mine[1].time

\* C5: for every region of the registry, num_records is the number of
\* observations folded that carry its code, duplicates included.
C5_CountIsNumberOfObservations ==
    \A v \in Occupied :
        Deref(states[v]).num_records = Len(ObsOf(obs, Deref(states[v]).code))

\* The same line was read twice and its region counts two records.
C5_Witness_DuplicateCounted ==
    /\ Len(lines) = 2
    /\ lines[1] = lines[2]
    /\ WellFormed(lines[1]) /\ FitsBuffer(lines[1])
    /\ Len(obs) = 2
    /\ \E v \in Occupied :
         /\ Deref(states[v]).code = obs[2].code
         /\ Deref(states[v]).num_records = 2

\* C6: whatever the file boundaries, the registry is the one a single stream
\* of all the observations read so far leaves behind, and the observation
\* read from a well-formed line that fits the buffer depends on the line
\* alone.  The second part is stated of the observation read last: obs and
\* lines only grow, so every observation was once the last one.
C6_OneRunningRegistry ==
    /\ states = RegistryOf(obs)
    /\ obs # <<>> =>
         LET o == obs[Len(obs)]
             id == lines[o.ln]
         IN  (WellFormed(id) /\ FitsBuffer(id)) => o = LineObs(id, o.ln)

\* A run over two files has ended; the last observation of the first file
\* and the first of the second are of the same region.
C6_Witness_MergedAcrossFiles ==
    /\ pc = "return_0"
    /\ carried > 0
    /\ carried < Len(obs)
    /\ obs[carried].code = obs[carried + 1].code
    /\ \A k \in 1..Len(lines) : WellFormed(lines[k]) /\ FitsBuffer(lines[k])

C8_OnlyMatchedOrOneInserted ==
    [][obs' # obs =>
        LET o == obs'[Len(obs')]
            hit == {v \in Slots : states[v] # NULL /\ Deref(states[v]).code = o.code}
        IN  /\ past' = past
            /\ IF hit # {}
               THEN \A v \in Slots \ hit : states'[v] = states[v]
               ELSE \E v \in Slots :
                      /\ states[v] = NULL
                      /\ states'[v] # NULL
                      /\ Deref(states'[v]).code = o.code
                      /\ \A w \in Slots \ {v} : states'[w] = states[w]]_vars

\* C9: the slot index of the scan stays inside the array, and the code of
\* the observation stored last is in the registry.
C9_AlwaysInsertedInBounds ==
    /\ val \in Slots
    /\ (obs # <<>> /\ pc # "crashed") =>
         \E v \in Occupied : Deref(states[v]).code = obs[Len(obs)].code

\* C10: every line read to its end has produced exactly one observation.
C10_OneRecordPerLine ==
    (off = 0 /\ pc # "crashed") => Len(obs) = Len(lines)

====
